---------------------------- MODULE Spec2Model ----------------------------
(***************************************************************************)
(* Model of the reversible-reaction simulator                              *)
(* (src/reversible_reaction_simulator_with_custom_font.py).                *)
(*                                                                         *)
(* The program is a Streamlit script: every user interaction (a button     *)
(* press) re-runs the script from top to bottom against the session state, *)
(* which holds the two lists `reactants` and `products`.  Everything else  *)
(* (the time grid, the solution, the figure) is local to one script run    *)
(* and is gone at the next interaction.                                    *)
(*                                                                         *)
(* Numbers.  Concentrations, k_f and K are floats in the program.  They    *)
(* are modelled in fixed point: the integer v stands for v / Scale.        *)
(* Multiplication and division round toward zero, which like IEEE          *)
(* rounding is symmetric under negation; addition is exact.  Times are     *)
(* kept exactly, as integer multiples of 1 / (num - 1) seconds.            *)
(***************************************************************************)
EXTENDS Integers, Sequences, FiniteSets, TLC

VARIABLES
    reactants,   \* st.session_state.reactants : list of {'name', 'initial'}
    products,    \* st.session_state.products
    lastAction,  \* the widget interaction that triggered the last script run
    run,         \* what the simulation block (lines 75-121) did in that run
    call         \* last direct evaluation of reaction_rate (RateSpec only)

vars == <<reactants, products, lastAction, run, call>>

-----------------------------------------------------------------------------
(* Bounds of the model *)

\* fixed-point resolution: the integer Scale stands for 1.0
Scale == 1000
\* cap on len(reactants) + len(products)
MaxSpecies == 3

\* values typed into the name inputs; "" is an empty text input
Names == {"A", "B"}
\* values typed into the initial-concentration inputs (min_value = 0.0)
Concs == {0, Scale}
\* values typed into the K input (min_value = 0.0)
KSet == {0, 2 * Scale}
\* values typed into the k_f input (min_value = 0.0)
KfSet == {0, Scale}
\* values typed into the simulation-time input, in seconds (min_value = 1.0)
TimeSet == {1, 10}
\* states of the multiselect: everything selected (the default), or only "A"
SelSets == {Names, {"A"}}

\* inputs of the direct evaluations of reaction_rate (RateSpec)
RateNames == {"A"}
RateConcs == {0, Scale, 2 * Scale}
RateKSet == {0, Scale \div 2, Scale, 2 * Scale}
RateKfSet == {0, Scale, 3 * Scale}

\* num of np.linspace(0, time_end, 1000)
NumSamples == 1000

-----------------------------------------------------------------------------
(* Arithmetic *)

\* a / b rounded toward zero, for b > 0
TruncDiv(a, b) == IF a >= 0 THEN a \div b ELSE -((-a) \div b)

\* float product
FMul(a, b) == TruncDiv(a * b, Scale)

\* Python float division: raises ZeroDivisionError when the divisor is 0
PyDiv(a, b) ==
    IF b = 0 THEN [raised |-> "ZeroDivisionError", val |-> 0]
    ELSE [raised |-> "", val |-> TruncDiv(a * Scale, b)]

\* np.prod: product of the entries taken left to right, 1.0 for an empty array
RECURSIVE np_prod(_)
np_prod(s) ==
    IF s = <<>> THEN Scale
    ELSE FMul(np_prod(SubSeq(s, 1, Len(s) - 1)), s[Len(s)])

\* C[:n] and C[n:]
SliceTo(C, n) == SubSeq(C, 1, IF n < Len(C) THEN n ELSE Len(C))
SliceFrom(C, n) == SubSeq(C, (IF n < Len(C) THEN n ELSE Len(C)) + 1, Len(C))

-----------------------------------------------------------------------------
(* reaction_rate, lines 81-96.  The function is a closure: besides its     *)
(* arguments (C, t, kf, K) it reads len(st.session_state.reactants) and    *)
(* len(st.session_state.products) at every call (lines 83-84).  Those two  *)
(* reads are the parameters n_reactants and n_products here; every caller  *)
(* passes the lengths of the lists as they stand at the call.              *)

\* variant: the products slice starts at n_products instead of n_reactants
reaction_rate_wrong_slice(n_reactants, n_products, C, t, kf, K) ==
    LET kr == PyDiv(kf, K)
        reactants_conc == SliceTo(C, n_reactants)
        products_conc == SliceFrom(C, n_products)
        forward_rate == FMul(kf, np_prod(reactants_conc))
        reverse_rate == FMul(kr.val, np_prod(products_conc))
    IN  IF kr.raised # ""
        THEN [raised |-> kr.raised, val |-> <<>>]
        ELSE [raised |-> "",
              val |-> [i \in 1..(n_reactants + n_products) |->
                          IF i <= n_reactants
                          THEN -forward_rate + reverse_rate
                          ELSE forward_rate - reverse_rate]]

\* variant: the reactant entries get -forward_rate alone
reaction_rate_forward_only(n_reactants, n_products, C, t, kf, K) ==
    LET kr == PyDiv(kf, K)
        reactants_conc == SliceTo(C, n_reactants)
        products_conc == SliceFrom(C, n_reactants)
        forward_rate == FMul(kf, np_prod(reactants_conc))
        reverse_rate == FMul(kr.val, np_prod(products_conc))
    IN  IF kr.raised # ""
        THEN [raised |-> kr.raised, val |-> <<>>]
        ELSE [raised |-> "",
              val |-> [i \in 1..(n_reactants + n_products) |->
                          IF i <= n_reactants
                          THEN -forward_rate
                          ELSE forward_rate - reverse_rate]]

\* variant: the reverse rate uses K where it should use kr
reaction_rate_K_for_kr(n_reactants, n_products, C, t, kf, K) ==
    LET kr == PyDiv(kf, K)
        reactants_conc == SliceTo(C, n_reactants)
        products_conc == SliceFrom(C, n_reactants)
        forward_rate == FMul(kf, np_prod(reactants_conc))
        reverse_rate == FMul(K, np_prod(products_conc))
    IN  IF kr.raised # ""
        THEN [raised |-> kr.raised, val |-> <<>>]
        ELSE [raised |-> "",
              val |-> [i \in 1..(n_reactants + n_products) |->
                          IF i <= n_reactants
                          THEN -forward_rate + reverse_rate
                          ELSE forward_rate - reverse_rate]]

reaction_rate(n_reactants, n_products, C, t, kf, K) ==
    LET kr == PyDiv(kf, K)
        reactants_conc == SliceTo(C, n_reactants)
        products_conc == SliceFrom(C, n_reactants)
        forward_rate == FMul(kf, np_prod(reactants_conc))
        reverse_rate == FMul(kr.val, np_prod(products_conc))
    IN  IF kr.raised # ""
        THEN [raised |-> kr.raised, val |-> <<>>]
        ELSE [raised |-> "",
              val |-> [i \in 1..(n_reactants + n_products) |->
                          IF i <= n_reactants
                          THEN -forward_rate + reverse_rate
                          ELSE forward_rate - reverse_rate]]

-----------------------------------------------------------------------------
(* np.linspace(start, stop, num), line 102: num evenly spaced samples,     *)
(* both endpoints included.  Entry i is in units of 1 / (num - 1) seconds. *)

\* variant: one sample short
linspace_short(start, stop, num) ==
    [i \in 1..(num - 1) |-> start * (num - 1) + (i - 1) * (stop - start)]

linspace(start, stop, num) ==
    [i \in 1..num |-> start * (num - 1) + (i - 1) * (stop - start)]

(* odeint(func, y0, t, args), line 105.  The library integrator is         *)
(* modelled as the explicit one-stage Runge-Kutta method on the sample     *)
(* grid: row 1 is y0 and row i+1 is row i advanced by (t[i+1] - t[i])      *)
(* times the derivative at row i.  An exception raised by the callback     *)
(* propagates out of odeint.  den is the number of time units per second.  *)

OdeStep(nR, nP, y, ti, h, den, kf, K) ==
    LET d == reaction_rate(nR, nP, y, ti, kf, K).val
    IN  [i \in 1..Len(y) |-> y[i] + TruncDiv(h * d[i], den)]

\* rows i .. i+n-1 of the solution, given row i
RECURSIVE OdeRows(_, _, _, _, _, _, _, _, _)
OdeRows(nR, nP, y, i, n, t, den, kf, K) ==
    IF n = 1 THEN <<y>>
    ELSE LET m == n \div 2
             left == OdeRows(nR, nP, y, i, m, t, den, kf, K)
             next == OdeStep(nR, nP, left[m], t[i + m - 1],
                             t[i + m] - t[i + m - 1], den, kf, K)
         IN  left \o OdeRows(nR, nP, next, i + m, n - m, t, den, kf, K)

odeint(nR, nP, y0, t, kf, K) ==
    LET first == reaction_rate(nR, nP, y0, t[1], kf, K)
    IN  IF first.raised # ""
        THEN [raised |-> first.raised, rows |-> <<>>, dC0 |-> <<>>, nEvals |-> 1]
        ELSE [raised |-> "",
              rows |-> OdeRows(nR, nP, y0, 1, Len(t), t, Len(t) - 1, kf, K),
              dC0 |-> first.val,
              nEvals |-> Len(t)]

(* Lines 102-105: the time grid and the integration over it.               *)
Integrate(nR, nP, y0, time_end, kf, K) ==
    LET t == linspace(0, time_end, NumSamples)
    IN  [t |-> t, sol |-> odeint(nR, nP, y0, t, kf, K)]

(* The integrations of the inputs the model draws, tabulated so that each  *)
(* is computed once.  Solve(...) is Integrate(...): it looks the call up   *)
(* in the table and integrates directly when the call is not tabulated.    *)

SolveKeys ==
    {k \in (1..MaxSpecies) \X (1..MaxSpecies)
              \X (UNION {[1..n -> Concs] : n \in 2..MaxSpecies})
              \X TimeSet \X KfSet \X KSet :
        k[1] + k[2] = Len(k[3])}

SolveTable ==
    {[key |-> k, out |-> Integrate(k[1], k[2], k[3], k[4], k[5], k[6])] :
        k \in SolveKeys}

Solve(nR, nP, y0, time_end, kf, K) ==
    IF \E e \in SolveTable : e.key = <<nR, nP, y0, time_end, kf, K>>
    THEN (CHOOSE e \in SolveTable : e.key = <<nR, nP, y0, time_end, kf, K>>).out
    ELSE Integrate(nR, nP, y0, time_end, kf, K)

-----------------------------------------------------------------------------
(* State *)

\* a script run in which the simulation block did nothing
NoRun == [status |-> "none", K |-> 0, kf |-> 0, time_end |-> 0,
          selected |-> {}, initial |-> <<>>, t |-> <<>>, solution |-> <<>>,
          dC0 |-> <<>>, plotted |-> <<>>, nEvals |-> 0]

NoCall == [made |-> FALSE, C |-> <<>>, kf |-> 0, K |-> 0,
           n_reactants |-> 0, n_products |-> 0, raised |-> "", ret |-> <<>>]

NoAction == [op |-> "start", idx |-> 0, name |-> ""]

\* lines 22-25
Init ==
    /\ reactants = <<>>
    /\ products = <<>>
    /\ lastAction = NoAction
    /\ run = NoRun
    /\ call = NoCall

\* variant: list.pop() whatever the position
Pop_last(s, i) == [j \in 1..(Len(s) - 1) |-> s[j]]

\* list.pop(i) (positions counted from 1 here)
Pop(s, i) == [j \in 1..(Len(s) - 1) |-> IF j < i THEN s[j] ELSE s[j + 1]]

\* line 71 / line 109: names of the reactants, then names of the products
SpeciesNames(rs, ps) ==
    [i \in 1..Len(rs) |-> rs[i].name] \o [i \in 1..Len(ps) |-> ps[i].name]

\* variant: products first
InitialConcentrations_products_first(rs, ps) ==
    [i \in 1..Len(ps) |-> ps[i].initial] \o [i \in 1..Len(rs) |-> rs[i].initial]

\* line 99
InitialConcentrations(rs, ps) ==
    [i \in 1..Len(rs) |-> rs[i].initial] \o [i \in 1..Len(ps) |-> ps[i].initial]

\* variant: `and` for `or`
ListMissing_and(rs, ps) == rs = <<>> /\ ps = <<>>

\* line 76: not reactants or not products
ListMissing(rs, ps) == rs = <<>> \/ ps = <<>>

\* lines 109-111: for every index i whose name is selected, the curve
\* ax.plot(t, solution[:, i], label=species); col names the column drawn
RECURSIVE PlotLoop(_, _, _)
PlotLoop(names, selected, i) ==
    IF i > Len(names) THEN <<>>
    ELSE (IF names[i] \in selected
          THEN <<[label |-> names[i], col |-> i]>>
          ELSE <<>>)
         \o PlotLoop(names, selected, i + 1)

-----------------------------------------------------------------------------
(* Actions: one per button.  Each is one run of the script; the run has no *)
(* simulation output unless the button is "run simulation".                *)

\* lines 29-34
AddReactant(name, initial) ==
    /\ Len(reactants) + Len(products) < MaxSpecies
    /\ reactants' = IF name # ""
                    THEN Append(reactants, [name |-> name, initial |-> initial])
                    ELSE reactants
    /\ lastAction' = [op |-> "add_reactant", idx |-> 0, name |-> name]
    /\ run' = NoRun
    /\ UNCHANGED <<products, call>>

\* lines 37-43
RemoveReactant(i) ==
    /\ i \in 1..Len(reactants)
    /\ reactants' = Pop(reactants, i)
    /\ lastAction' = [op |-> "remove_reactant", idx |-> i, name |-> reactants[i].name]
    /\ run' = NoRun
    /\ UNCHANGED <<products, call>>

\* lines 47-52
AddProduct(name, initial) ==
    /\ Len(reactants) + Len(products) < MaxSpecies
    /\ products' = IF name # ""
                   THEN Append(products, [name |-> name, initial |-> initial])
                   ELSE products
    /\ lastAction' = [op |-> "add_product", idx |-> 0, name |-> name]
    /\ run' = NoRun
    /\ UNCHANGED <<reactants, call>>

\* lines 55-61
RemoveProduct(i) ==
    /\ i \in 1..Len(products)
    /\ products' = Pop(products, i)
    /\ lastAction' = [op |-> "remove_product", idx |-> i, name |-> products[i].name]
    /\ run' = NoRun
    /\ UNCHANGED <<reactants, call>>

\* lines 75-121
RunSimulation(K, kf, time_end, selected) ==
    /\ lastAction' = [op |-> "run", idx |-> 0, name |-> ""]
    /\ IF ListMissing(reactants, products)
       THEN \* line 77: st.error
            run' = [NoRun EXCEPT !.status = "error", !.K = K, !.kf = kf,
                                 !.time_end = time_end, !.selected = selected]
       ELSE LET initial_concentrations == InitialConcentrations(reactants, products)
                out == Solve(Len(reactants), Len(products),
                             initial_concentrations, time_end, kf, K)
                t == out.t
                sol == out.sol
            IN  IF sol.raised # ""
                THEN \* the exception leaves the script run: nothing is plotted
                     run' = [NoRun EXCEPT !.status = sol.raised, !.K = K, !.kf = kf,
                                          !.time_end = time_end, !.selected = selected,
                                          !.initial = initial_concentrations,
                                          !.t = t, !.nEvals = sol.nEvals]
                ELSE run' = [status |-> "plotted", K |-> K, kf |-> kf,
                             time_end |-> time_end, selected |-> selected,
                             initial |-> initial_concentrations, t |-> t,
                             solution |-> sol.rows, dC0 |-> sol.dC0,
                             plotted |-> PlotLoop(SpeciesNames(reactants, products),
                                                  selected, 1),
                             nEvals |-> sol.nEvals]
    /\ UNCHANGED <<reactants, products, call>>

Next ==
    \/ \E name \in Names \cup {""}, initial \in Concs : AddReactant(name, initial)
    \/ \E i \in 1..MaxSpecies : RemoveReactant(i)
    \/ \E name \in Names \cup {""}, initial \in Concs : AddProduct(name, initial)
    \/ \E i \in 1..MaxSpecies : RemoveProduct(i)
    \/ \E K \in KSet, kf \in KfSet, time_end \in TimeSet, selected \in SelSets :
          RunSimulation(K, kf, time_end, selected)

Spec == Init /\ [][Next]_vars

-----------------------------------------------------------------------------
(* Direct evaluations of reaction_rate.  The session's lists are drawn    *)
(* from the lists the add buttons can build; Evaluate calls the function   *)
(* on a vector of the length the lists give, as odeint does.               *)

RateRecords == [name : RateNames, initial : {Scale}]

RateInit ==
    /\ reactants \in UNION {[1..n -> RateRecords] : n \in 0..MaxSpecies}
    /\ products \in UNION {[1..n -> RateRecords] : n \in 0..MaxSpecies}
    /\ Len(reactants) + Len(products) <= MaxSpecies
    /\ lastAction = NoAction
    /\ run = NoRun
    /\ call = NoCall

Evaluate(C, kf, K) ==
    LET r == reaction_rate(Len(reactants), Len(products), C, 0, kf, K)
    IN  /\ Len(C) = Len(reactants) + Len(products)
        /\ call' = [made |-> TRUE, C |-> C, kf |-> kf, K |-> K,
                    n_reactants |-> Len(reactants), n_products |-> Len(products),
                    raised |-> r.raised, ret |-> r.val]
        /\ UNCHANGED <<reactants, products, lastAction, run>>

RateNext ==
    \E n \in 0..MaxSpecies : \E C \in [1..n -> RateConcs] :
        \E kf \in RateKfSet, K \in RateKSet : Evaluate(C, kf, K)

RateSpec == RateInit /\ [][RateNext]_vars

-----------------------------------------------------------------------------
(* Properties *)

\* the records of the session in vector order: reactants, then products
Species == reactants \o products

\* the initial concentrations of a list of records
Initials(rs) == [i \in 1..Len(rs) |-> rs[i].initial]

\* net rate of the law of mass action: k_f * prod(R) - (k_f / K) * prod(P)
NetRate(R, P, kf, K) ==
    FMul(kf, np_prod(R)) - FMul(TruncDiv(kf * Scale, K), np_prod(P))

(* C1: for a concentration vector C of length n_reactants + n_products,    *)
(* k_f >= 0 and K > 0, the rate function returns a vector of the same      *)
(* length that holds -net at every reactant index and +net at every        *)
(* product index, net = k_f * prod(reactant entries) - (k_f / K) *         *)
(* prod(product entries).                                                  *)
C1_RateContract ==
    (call.made /\ call.K > 0) =>
        LET nR == Len(reactants)
            n == Len(call.C)
            net == NetRate(SubSeq(call.C, 1, nR), SubSeq(call.C, nR + 1, n),
                           call.kf, call.K)
        IN  /\ call.raised = ""
            /\ Len(call.ret) = n
            /\ \A i \in 1..n : call.ret[i] = IF i <= nR THEN -net ELSE net

C1_Witness ==
    /\ call.made /\ call.K > 0 /\ call.kf > 0
    /\ Len(reactants) = 1 /\ Len(products) = 2
    /\ call.ret[1] > 0 /\ call.ret[3] < 0

(* C2 (as claimed): a run with K = 0 and both lists non-empty ends in a    *)
(* DomainError reported as an input error, with no trajectory, and the     *)
(* division k_f / K is never carried out with K = 0.                       *)
C2_DomainErrorOnZeroK ==
    (lastAction.op = "run" /\ run.K = 0 /\ ~ListMissing(reactants, products)) =>
        /\ run.status = "DomainError"
        /\ run.nEvals = 0
        /\ run.solution = <<>>

(* C3: a press of "run simulation" while the reactant list or the product  *)
(* list is empty reports an error and integrates nothing: the rate         *)
(* function is not evaluated, there is no trajectory and no curve, and     *)
(* both lists are as before.                                               *)
C3_EmptyListRun ==
    [][(lastAction'.op = "run" /\ (reactants = <<>> \/ products = <<>>)) =>
          /\ run'.status = "error"
          /\ run'.nEvals = 0
          /\ run'.solution = <<>>
          /\ run'.plotted = <<>>
          /\ reactants' = reactants
          /\ products' = products]_vars

C3_Witness ==
    /\ lastAction.op = "run"
    /\ reactants # <<>> /\ products = <<>>
    /\ run.status = "error"

(* C4 (as claimed): in every reachable state every record has a non-empty  *)
(* name and no two records of the two lists share a name.                  *)
C4_UniqueNonEmptyNames ==
    LET names == SpeciesNames(reactants, products)
    IN  /\ \A i \in 1..Len(names) : names[i] # ""
        /\ \A i, j \in 1..Len(names) : i # j => names[i] # names[j]

(* C5: in every run that integrates, index i means the i-th record of      *)
(* reactants followed by products at the input (the initial vector), in    *)
(* the rate function (the first len(reactants) entries of the derivative   *)
(* are the reactants': -net, the others +net) and at the output (a curve   *)
(* labelled with a name draws the column of a record of that name, one     *)
(* curve per selected index, in index order; every row has one entry per   *)
(* record).                                                                *)
C5_IndexLayout ==
    run.status = "plotted" =>
        LET n == Len(Species)
            net == NetRate(Initials(reactants), Initials(products), run.kf, run.K)
        IN  /\ Len(run.initial) = n
            /\ \A i \in 1..n : run.initial[i] = Species[i].initial
            /\ run.solution[1] = run.initial
            /\ \A k \in 1..Len(run.solution) : Len(run.solution[k]) = n
            /\ Len(run.dC0) = n
            /\ \A i \in 1..n :
                  run.dC0[i] = IF i <= Len(reactants) THEN -net ELSE net
            /\ \A j \in 1..Len(run.plotted) :
                  /\ run.plotted[j].col \in 1..n
                  /\ run.plotted[j].label = Species[run.plotted[j].col].name
                  /\ j > 1 => run.plotted[j - 1].col < run.plotted[j].col
            /\ \A i \in 1..n :
                  (Species[i].name \in run.selected)
                      <=> (\E j \in 1..Len(run.plotted) : run.plotted[j].col = i)

C5_Witness ==
    /\ run.status = "plotted"
    /\ Len(reactants) = 2 /\ Len(products) = 1
    /\ reactants[1].name = "B" /\ reactants[2].name = "A" /\ products[1].name = "A"
    /\ run.selected = {"A"}
    /\ Len(run.plotted) = 2
    /\ run.dC0[1] < 0

(* C6: with exactly one reactant and one product, reactant + product is    *)
(* the same at every sample of the trajectory as at t = 0.                 *)
C6_Conservation ==
    (run.status = "plotted" /\ Len(reactants) = 1 /\ Len(products) = 1) =>
        \A k \in 1..Len(run.solution) :
            run.solution[k][1] + run.solution[k][2]
                = reactants[1].initial + products[1].initial

C6_Witness ==
    /\ run.status = "plotted" /\ Len(reactants) = 1 /\ Len(products) = 1
    /\ run.solution[Len(run.solution)][1] < run.solution[1][1]
    /\ run.solution[Len(run.solution)][2] > run.solution[1][2]

(* C7 (as claimed): the value returned for given C, k_f and K is the same  *)
(* whatever the session's lists are: an evaluation made while the lists,   *)
(* both non-empty, have other lengths of the same total returns what this  *)
(* one, made with both lists non-empty, returned.                          *)
C7_PureOfArguments ==
    (call.made /\ reactants # <<>> /\ products # <<>>) =>
        \A a \in 1..(Len(call.C) - 1) :
            LET r == reaction_rate(a, Len(call.C) - a, call.C, 0, call.kf, call.K)
            IN  r.raised = call.raised /\ r.val = call.ret

(* C8: with k_f = 0 the rate function returns 0 at every index, for every  *)
(* concentration vector, and the trajectory of a run repeats the initial   *)
(* vector at every sample.                                                 *)
C8_ZeroKf ==
    /\ \A K \in KSet \ {0} :
          \A C \in [1..(Len(reactants) + Len(products)) -> RateConcs] :
              LET r == reaction_rate(Len(reactants), Len(products), C, 0, 0, K)
              IN  r.raised = "" /\ \A i \in 1..Len(r.val) : r.val[i] = 0
    /\ (run.status = "plotted" /\ run.kf = 0) =>
          /\ \A i \in 1..Len(run.dC0) : run.dC0[i] = 0
          /\ \A k \in 1..Len(run.solution) :
                \A i \in 1..Len(Species) : run.solution[k][i] = Species[i].initial

C8_Witness ==
    /\ run.status = "plotted" /\ run.kf = 0
    /\ Len(reactants) = 2
    /\ \A i \in 1..Len(Species) : Species[i].initial > 0

(* C9: a run either fails, and then has no trajectory and no curve, or     *)
(* yields a complete trajectory: 1000 samples at evenly spaced times from  *)
(* 0 to the duration (times are in units of 1/999 s), every row with one   *)
(* entry per record.                                                       *)
C9_CompleteOrNothing ==
    /\ run.status \in {"none", "error", "ZeroDivisionError", "plotted"}
    /\ run.status = "plotted" =>
          /\ Len(run.t) = 1000
          /\ Len(run.solution) = 1000
          /\ run.t[1] = 0
          /\ run.t[1000] = run.time_end * 999
          /\ \A i \in 1..999 : run.t[i + 1] - run.t[i] = run.time_end
          /\ \A k \in 1..1000 :
                Len(run.solution[k]) = Len(reactants) + Len(products)
    /\ run.status # "plotted" => (run.solution = <<>> /\ run.plotted = <<>>)

C9_Witness ==
    /\ run.status = "plotted"
    /\ run.time_end = 10
    /\ Len(reactants) + Len(products) = 3

(* C10: the remove button of position i of a list removes the record at    *)
(* position i of that list, keeps the other records of the list in order   *)
(* and leaves the other list alone; an add button pressed with an empty    *)
(* name changes neither list.                                              *)
RemovedAt(before, after, i) ==
    /\ i \in 1..Len(before)
    /\ Len(after) = Len(before) - 1
    /\ \A j \in 1..(i - 1) : after[j] = before[j]
    /\ \A j \in i..Len(after) : after[j] = before[j + 1]

C10_RemoveAndEmptyAdd ==
    [][/\ lastAction'.op = "remove_reactant" =>
             (RemovedAt(reactants, reactants', lastAction'.idx)
              /\ products' = products)
       /\ lastAction'.op = "remove_product" =>
             (RemovedAt(products, products', lastAction'.idx)
              /\ reactants' = reactants)
       /\ (lastAction'.op \in {"add_reactant", "add_product"}
           /\ lastAction'.name = "") =>
             (reactants' = reactants /\ products' = products)]_vars

C10_Witness ==
    /\ lastAction.op = "remove_reactant" /\ lastAction.idx = 2
    /\ Len(reactants) = 2
    /\ reactants[1].name = "A" /\ reactants[2].name = "A" /\ lastAction.name = "B"

=============================================================================
